---- MODULE Spec2Model ----
(***************************************************************************)
(* FlowStateAI: the event capture / queue / persist pipeline of            *)
(* AdvancedDataCollector (src/data_collector.py) and the streaming log     *)
(* analyzer analyze_log (src/data_analysis.py).                            *)
(*                                                                         *)
(* Threads of the collector: the main thread that calls start() and        *)
(* stop(), the keyboard and the mouse listener threads that deliver the    *)
(* callbacks one at a time per device, and one writer thread per start().  *)
(* Time is read by the handlers from a clock that counts ticks of 50 ms.   *)
(***************************************************************************)
EXTENDS Integers, Sequences, FiniteSets, TLC

\* ------------------------------------------------------------------ bounds
\* callbacks delivered in one behaviour
MaxEvents == 2
\* callbacks delivered while only the keyboard produces input
MaxKeyEvents == 3
\* callbacks delivered while only the mouse produces input
MaxMouseEvents == 3
\* start() calls that take effect (writer threads created) in one behaviour
MaxStarts == 2
\* last clock tick
MaxTime == 2
\* lines of the file analyze_log reads
MaxLines == 2
\* lines of a log file whose lines differ in timestamp only
MaxOrderLines == 3
\* callbacks delivered in a behaviour checked for progress
MaxStopEvents == 1

\* ------------------------------------------------------- program constants
\* Python's None in an Optional[float] field
None == -1
\* queue.Queue() is built without a maxsize: 0, which the queue reads as infinite
maxsize == 0
\* "dt < 0.1" seconds, in clock ticks of 50 ms
MoveMinDt == 2
\* "distance < 5" pixels
MoveMinDistance == 5
\* key identities _key_to_str can return
Keys == {"a", "b"}
\* pointer coordinates the mouse callbacks are called with
Xs == {0, 3}
Ys == {0, 4}

\* the item stop() puts to end the stream: event_queue.put(None)
Sentinel == [event_type |-> "None"]
\* Optional[Tuple[int, int]] without a value
NoPos == <<>>
\* velocity without a value
NoVelocity == <<>>

VARIABLES
  running,                \* self._running
  writer_thread,          \* self.writer_thread: index into writers, 0 for None
  keyboard_listener,      \* self.keyboard_listener is set (and started)
  mouse_listener,         \* self.mouse_listener is set (and started)
  event_queue,            \* self.event_queue, head first
  key_press_times,        \* self.key_press_times: key -> time, None when absent
  last_key_release_time,  \* self.last_key_release_time
  last_mouse_pos,         \* self.last_mouse_pos
  last_mouse_move_time,   \* self.last_mouse_move_time
  last_click_time,        \* self.last_click_time
  writers,                \* every writer thread created so far: its position in _writer_loop
  file,                   \* the lines of self.session_file, in order
  now,                    \* time.time(), in ticks
  pc,                     \* the main thread: "idle", or "joining" inside stop()
  kbInflight,             \* a stopped keyboard listener may still have a callback in flight
  msInflight,             \* the same for the mouse listener
  enqLog,                 \* history: every item ever put into event_queue, in order
  callLog,                \* history: every callback delivered, in order
  lastOp,                 \* history: the call made last, "start" or "stop", "other" for any other step
  lines,                  \* analyze_log: the lines of the file at file_path
  lineNo,                 \* analyze_log: lines read so far
  stats,                  \* analyze_log: stats
  previous_ts,            \* analyze_log: previous_ts
  apc                     \* analyze_log: "idle", "reading", "returned" or "raised"

collectorState ==
  <<running, writer_thread, keyboard_listener, mouse_listener, event_queue,
    key_press_times, last_key_release_time, last_mouse_pos,
    last_mouse_move_time, last_click_time>>

keyState == <<key_press_times, last_key_release_time>>

mouseState == <<last_mouse_pos, last_mouse_move_time, last_click_time>>

threadState == <<writers, file, pc, kbInflight, msInflight>>

analyzerVars == <<lines, lineNo, stats, previous_ts, apc>>

vars ==
  <<collectorState, threadState, now, enqLog, callLog, lastOp, analyzerVars>>

\* ----------------------------------------------------------------- helpers
\* a writer that holds no item
NoItem == [seq |-> 0, ev |-> Sentinel]

\* the run (1, 2, ...) the last start() began: one writer is created per run
CurrentRun == Len(writers)

\* queue.Queue.full(): never, when maxsize <= 0
Full(q) == maxsize > 0 /\ Len(q) >= maxsize

\* Queue.put_nowait(item): raises queue.Full on a full queue, appends otherwise
put_nowait(q, item) == IF Full(q) THEN q ELSE Append(q, item)

\* the history of puts: an item that put_nowait refused never entered the queue
Logged(q, log, ev) == IF Full(q) THEN log ELSE Append(log, ev)

\* _enqueue_event(event): put_nowait, a queue.Full swallowed
EnqueueEvent(ev) ==
  /\ event_queue' = put_nowait(event_queue, [seq |-> Len(enqLog) + 1, ev |-> ev])
  /\ enqLog' = Logged(event_queue, enqLog, ev)

\* a release that reads the press time and leaves the entry in place
popKeeps(times, key) == times

\* self.key_press_times.pop(key_str, None): the dict without the key
pop(times, key) == [times EXCEPT ![key] = None]

\* math.hypot(dx, dy) squared
Hypot2(dx, dy) == dx * dx + dy * dy

\* the throttle with "or" written for "and"
ThrottledEither(dt, dx, dy) ==
  dt < MoveMinDt \/ Hypot2(dx, dy) < MoveMinDistance * MoveMinDistance

\* "dt < 0.1 and distance < 5" of _on_move
Throttled(dt, dx, dy) ==
  dt < MoveMinDt /\ Hypot2(dx, dy) < MoveMinDistance * MoveMinDistance

\* ------------------------------------------------------------------- Init
\* the collector after __init__
CollectorInit ==
  /\ running = FALSE
  /\ writer_thread = 0
  /\ keyboard_listener = FALSE
  /\ mouse_listener = FALSE
  /\ event_queue = <<>>
  /\ key_press_times = [k \in Keys |-> None]
  /\ last_key_release_time = None
  /\ last_mouse_pos = NoPos
  /\ last_mouse_move_time = None
  /\ last_click_time = None
  /\ writers = <<>>
  /\ file = <<>>
  /\ now = 0
  /\ pc = "idle"
  /\ kbInflight = FALSE
  /\ msInflight = FALSE
  /\ enqLog = <<>>
  /\ callLog = <<>>
  /\ lastOp = "other"

\* ------------------------------------------------------------ main thread
\* start() without its check of _running
StartUnguarded ==
  /\ pc = "idle"
  /\ Len(writers) < MaxStarts
  /\ running' = TRUE
  /\ writers' = Append(writers, [st |-> "new", item |-> NoItem])
  /\ writer_thread' = Len(writers) + 1
  /\ keyboard_listener' = TRUE
  /\ mouse_listener' = TRUE
  /\ lastOp' = "start"
  /\ UNCHANGED <<event_queue, keyState, mouseState, file, pc,
                 kbInflight, msInflight, now, enqLog, callLog>>

\* start() that also clears the key-timing state of the run before
StartResets ==
  /\ pc = "idle"
  /\ IF running
     THEN /\ lastOp' = "start"
          /\ UNCHANGED <<collectorState, threadState, now, enqLog, callLog>>
     ELSE /\ Len(writers) < MaxStarts
          /\ running' = TRUE
          /\ writers' = Append(writers, [st |-> "new", item |-> NoItem])
          /\ writer_thread' = Len(writers) + 1
          /\ keyboard_listener' = TRUE
          /\ mouse_listener' = TRUE
          /\ key_press_times' = [k \in Keys |-> None]
          /\ last_key_release_time' = None
          /\ lastOp' = "start"
          /\ UNCHANGED <<event_queue, mouseState, file, pc,
                         kbInflight, msInflight, now, enqLog, callLog>>

\* start(): returns at once when running; else sets _running, creates and
\* starts the writer thread and the two listeners
Start ==
  /\ pc = "idle"
  /\ IF running
     THEN /\ lastOp' = "start"
          /\ UNCHANGED <<collectorState, threadState, now, enqLog, callLog>>
     ELSE /\ Len(writers) < MaxStarts
          /\ running' = TRUE
          /\ writers' = Append(writers, [st |-> "new", item |-> NoItem])
          /\ writer_thread' = Len(writers) + 1
          /\ keyboard_listener' = TRUE
          /\ mouse_listener' = TRUE
          /\ lastOp' = "start"
          /\ UNCHANGED <<event_queue, keyState, mouseState, file, pc,
                         kbInflight, msInflight, now, enqLog, callLog>>

\* a listener's stop() does not wait for a callback that is already running:
\* the stopped listener of this run may still deliver one more callback
StopListener(registered, inflight) == registered \/ inflight

\* stop() without its check of _running
StopUnguarded ==
  /\ pc = "idle"
  /\ running' = FALSE
  /\ kbInflight' = StopListener(keyboard_listener, kbInflight)
  /\ msInflight' = StopListener(mouse_listener, msInflight)
  /\ keyboard_listener' = FALSE
  /\ mouse_listener' = FALSE
  /\ event_queue' = Append(event_queue, [seq |-> Len(enqLog) + 1, ev |-> Sentinel])
  /\ enqLog' = Append(enqLog, Sentinel)
  /\ pc' = "joining"
  /\ lastOp' = "stop"
  /\ UNCHANGED <<writer_thread, keyState, mouseState, writers, file,
                 now, callLog>>

\* stop(), up to event_queue.put(None): returns at once when not running; else
\* clears _running, stops and forgets both listeners and puts the sentinel
StopBegin ==
  /\ pc = "idle"
  /\ IF ~running
     THEN /\ lastOp' = "stop"
          /\ UNCHANGED <<collectorState, threadState, now, enqLog, callLog>>
     ELSE /\ running' = FALSE
          /\ kbInflight' = StopListener(keyboard_listener, kbInflight)
          /\ msInflight' = StopListener(mouse_listener, msInflight)
          /\ keyboard_listener' = FALSE
          /\ mouse_listener' = FALSE
          /\ event_queue' = Append(event_queue, [seq |-> Len(enqLog) + 1, ev |-> Sentinel])
          /\ enqLog' = Append(enqLog, Sentinel)
          /\ pc' = "joining"
          /\ lastOp' = "stop"
          /\ UNCHANGED <<writer_thread, keyState, mouseState, writers, file,
                         now, callLog>>

\* a thread that has left _writer_loop
Finished(w) == writers[w].st \in {"exited", "failed"}

\* stop() whose join has no timeout: it returns when the writer has finished
StopJoinWaits ==
  /\ pc = "joining"
  /\ Finished(writer_thread)
  /\ pc' = "idle"
  /\ writer_thread' = 0
  /\ lastOp' = "other"
  /\ UNCHANGED <<running, keyboard_listener, mouse_listener, event_queue,
                 keyState, mouseState, writers, file, kbInflight, msInflight,
                 now, enqLog, callLog>>

\* stop(), writer_thread.join(timeout=5) and writer_thread = None: the join
\* returns when the writer has finished, or after the timeout while it still runs
StopJoin ==
  /\ pc = "joining"
  /\ pc' = "idle"
  /\ writer_thread' = 0
  /\ lastOp' = "other"
  /\ UNCHANGED <<running, keyboard_listener, mouse_listener, event_queue,
                 keyState, mouseState, writers, file, kbInflight, msInflight,
                 now, enqLog, callLog>>

\* ------------------------------------------------------- device callbacks
\* A callback is delivered by a started listener, or is the one a stopped
\* listener still had in flight; src says which. The handler reads the clock,
\* updates the state of its own kind and calls _enqueue_event. Nothing else
\* reads the clock, so it advances when a handler reads it: t is the value
\* time.time() returns, no earlier than the value read last.
FromKeyboard(src) ==
  \/ src = "listener" /\ keyboard_listener /\ kbInflight' = kbInflight
  \/ src = "inflight" /\ kbInflight /\ kbInflight' = FALSE

FromMouse(src) ==
  \/ src = "listener" /\ mouse_listener /\ msInflight' = msInflight
  \/ src = "inflight" /\ msInflight /\ msInflight' = FALSE

Call(op, key, x, y, t, run) ==
  [op |-> op, key |-> key, x |-> x, y |-> y, t |-> t, run |-> run]

\* time.time()
ReadClock(t) == t >= now /\ t <= MaxTime /\ now' = t

\* _on_press(key)
OnPress(key, t, src) ==
  /\ ReadClock(t)
  /\ FromKeyboard(src)
  /\ LET event_time == t
         flight_time == IF last_key_release_time # None
                        THEN event_time - last_key_release_time
                        ELSE None
     IN /\ key_press_times' = [key_press_times EXCEPT ![key] = event_time]
        /\ EnqueueEvent([timestamp |-> event_time,
                         event_type |-> "key_press",
                         data |-> [key |-> key,
                                   press_time |-> event_time,
                                   flight_time |-> flight_time]])
  /\ callLog' = Append(callLog, Call("press", key, 0, 0, t, CurrentRun))
  /\ lastOp' = "other"
  /\ UNCHANGED <<running, writer_thread, keyboard_listener, mouse_listener,
                 last_key_release_time, mouseState, writers, file, pc,
                 msInflight>>

\* _on_release(key)
OnRelease(key, t, src) ==
  /\ ReadClock(t)
  /\ FromKeyboard(src)
  /\ LET event_time == t
         press_time == key_press_times[key]
         dwell_time == IF press_time # None THEN event_time - press_time ELSE None
     IN /\ key_press_times' = pop(key_press_times, key)
        /\ last_key_release_time' = event_time
        /\ EnqueueEvent([timestamp |-> event_time,
                         event_type |-> "key_release",
                         data |-> [key |-> key,
                                   press_time |-> press_time,
                                   release_time |-> event_time,
                                   dwell_time |-> dwell_time]])
  /\ callLog' = Append(callLog, Call("release", key, 0, 0, t, CurrentRun))
  /\ lastOp' = "other"
  /\ UNCHANGED <<running, writer_thread, keyboard_listener, mouse_listener,
                 mouseState, writers, file, pc, msInflight>>

\* _on_move(x, y)
OnMove(x, y, t, src) ==
  /\ ReadClock(t)
  /\ FromMouse(src)
  /\ LET event_time == t
         known == last_mouse_pos # NoPos /\ last_mouse_move_time # None
         dx == x - last_mouse_pos[1]
         dy == y - last_mouse_pos[2]
         dt == event_time - last_mouse_move_time
         velocity == IF known /\ dt > 0 THEN <<Hypot2(dx, dy), dt>> ELSE NoVelocity
     IN IF known /\ Throttled(dt, dx, dy)
        THEN UNCHANGED <<event_queue, enqLog, mouseState>>
        ELSE /\ last_mouse_pos' = <<x, y>>
             /\ last_mouse_move_time' = event_time
             /\ EnqueueEvent([timestamp |-> event_time,
                              event_type |-> "mouse_move",
                              data |-> [x |-> x, y |-> y, velocity |-> velocity]])
             /\ UNCHANGED last_click_time
  /\ callLog' = Append(callLog, Call("move", "", x, y, t, CurrentRun))
  /\ lastOp' = "other"
  /\ UNCHANGED <<running, writer_thread, keyboard_listener, mouse_listener,
                 keyState, writers, file, pc, kbInflight>>

\* _on_click(x, y, button, pressed)
OnClick(x, y, pressed, t, src) ==
  /\ ReadClock(t)
  /\ FromMouse(src)
  /\ LET event_time == t
         click_interval == IF last_click_time # None
                           THEN event_time - last_click_time
                           ELSE None
     IN /\ last_click_time' = event_time
        /\ EnqueueEvent([timestamp |-> event_time,
                         event_type |-> "mouse_click",
                         data |-> [x |-> x, y |-> y, button |-> "Button.left",
                                   pressed |-> pressed,
                                   click_interval |-> click_interval]])
  /\ callLog' = Append(callLog, Call("click", "", x, y, t, CurrentRun))
  /\ lastOp' = "other"
  /\ UNCHANGED <<running, writer_thread, keyboard_listener, mouse_listener,
                 keyState, last_mouse_pos, last_mouse_move_time, writers, file,
                 pc, kbInflight>>

\* _on_scroll(x, y, dx, dy)
OnScroll(x, y, dx, dy, t, src) ==
  /\ ReadClock(t)
  /\ FromMouse(src)
  /\ EnqueueEvent([timestamp |-> t,
                   event_type |-> "mouse_scroll",
                   data |-> [x |-> x, y |-> y, dx |-> dx, dy |-> dy]])
  /\ callLog' = Append(callLog, Call("scroll", "", x, y, t, CurrentRun))
  /\ lastOp' = "other"
  /\ UNCHANGED <<running, writer_thread, keyboard_listener, mouse_listener,
                 keyState, mouseState, writers, file, pc, kbInflight>>

\* ----------------------------------------------------------- writer thread
WriterFrame ==
  UNCHANGED <<running, writer_thread, keyboard_listener, mouse_listener,
              keyState, mouseState, pc, kbInflight, msInflight, now, enqLog,
              callLog>>

\* _writer_loop: self.session_file.open("a") succeeds
WriterOpen(w) ==
  /\ writers[w].st = "new"
  /\ writers' = [writers EXCEPT ![w].st = "waiting"]
  /\ lastOp' = "other"
  /\ UNCHANGED <<event_queue, file>>
  /\ WriterFrame

\* _writer_loop: the open raises OSError, which the loop swallows and returns
WriterOpenFail(w) ==
  /\ writers[w].st = "new"
  /\ writers' = [writers EXCEPT ![w].st = "failed"]
  /\ lastOp' = "other"
  /\ UNCHANGED <<event_queue, file>>
  /\ WriterFrame

\* _writer_loop: event = self.event_queue.get(), which blocks on an empty
\* queue; on None the loop breaks and the file is closed
WriterGet(w) ==
  /\ writers[w].st = "waiting"
  /\ event_queue # <<>>
  /\ LET item == Head(event_queue)
     IN writers' = [writers EXCEPT ![w] =
                      IF item.ev = Sentinel
                      THEN [st |-> "exited", item |-> item]
                      ELSE [st |-> "holding", item |-> item]]
  /\ event_queue' = Tail(event_queue)
  /\ lastOp' = "other"
  /\ UNCHANGED file
  /\ WriterFrame

\* _writer_loop: json.dump(event, fp), fp.write("\n"), fp.flush()
WriterWrite(w) ==
  /\ writers[w].st = "holding"
  /\ file' = Append(file, writers[w].item)
  /\ writers' = [writers EXCEPT ![w] = [st |-> "waiting", item |-> NoItem]]
  /\ lastOp' = "other"
  /\ UNCHANGED event_queue
  /\ WriterFrame

\* _writer_loop: the write or the flush raises OSError, which the loop
\* swallows and returns
WriterWriteFail(w) ==
  /\ writers[w].st = "holding"
  /\ writers' = [writers EXCEPT ![w] = [st |-> "failed", item |-> NoItem]]
  /\ lastOp' = "other"
  /\ UNCHANGED <<event_queue, file>>
  /\ WriterFrame

\* ---------------------------------------------------------------- analyzer
\* A JSON value as analyze_log sees it: a missing key, null, a number, a
\* string, an array; numbers are integers here
Missing == [tag |-> "missing", n |-> 0, s |-> ""]

Null == [tag |-> "null", n |-> 0, s |-> ""]

Num(n) == [tag |-> "num", n |-> n, s |-> ""]

Str(s) == [tag |-> "str", n |-> 0, s |-> s]

List == [tag |-> "list", n |-> 0, s |-> ""]

\* the object under "data", with the keys the analyzer reads
Dict(velocity, dwell_time, flight_time) ==
  [tag |-> "dict", velocity |-> velocity, dwell_time |-> dwell_time,
   flight_time |-> flight_time]

\* EXTREME_VELOCITY_THRESHOLD
EXTREME_VELOCITY_THRESHOLD == 50000

\* Optional[float]
NoNumber == [ok |-> FALSE, n |-> 0]

Number(n) == [ok |-> TRUE, n |-> n]

\* strings float() parses
DigitStrings == {"0", "1", "2", "3"}

\* float(s) of a string of DigitStrings
FloatOfStr(s) == CHOOSE n \in 0..3 : ToString(n) = s

\* _safe_number(value): None for None, float(value) otherwise, None when float
\* raises TypeError (an array, an object) or ValueError (a string that is no number)
SafeNumber(value) ==
  CASE value.tag \in {"missing", "null"} -> NoNumber
    [] value.tag = "num" -> Number(value.n)
    [] value.tag = "str" ->
         IF value.s \in DigitStrings THEN Number(FloatOfStr(value.s)) ELSE NoNumber
    [] OTHER -> NoNumber

\* stats as analyze_log builds it before the pass
NewStats ==
  [total_lines |-> 0,
   valid_json |-> 0,
   invalid_json |-> 0,
   event_counts |-> [k \in {"key_press", "key_release", "mouse_move",
                            "mouse_click", "mouse_scroll", "other"} |-> 0],
   anomalies |-> [timestamp_order |-> 0, extreme_velocity |-> 0,
                  negative_dwell_or_flight |-> 0],
   examples |-> [extreme_velocity |-> <<>>, negative_dwell_or_flight |-> <<>>,
                 timestamp_order |-> <<>>]]

\* what one line leaves behind: stats, previous_ts, and whether an exception
\* left analyze_log
Outcome(st, prev, raised) == [stats |-> st, previous_ts |-> prev, raised |-> raised]

\* event.get("event_type", "other")
EventType(event) ==
  IF event.event_type.tag = "missing" THEN Str("other") ELSE event.event_type

\* event.get("data", {})
Data(event) ==
  IF event.data.tag = "missing" THEN Dict(Missing, Missing, Missing) ELSE event.data

\* a value a dict accepts as a key: an array or an object raises TypeError
Hashable(value) == value.tag \notin {"list", "dict"}

\* the key of event_counts a hashable event_type selects
TypeKey(value) ==
  CASE value.tag = "str" -> value.s
    [] value.tag = "null" -> "<None>"
    [] OTHER -> "<number>"

\* the count that adds a novel type both to a bucket of its own and to "other"
CountEventTwice(st, key) ==
  LET counts == st.event_counts
  IN [st EXCEPT !.event_counts =
        IF key \in DOMAIN counts
        THEN [counts EXCEPT ![key] = @ + 1]
        ELSE [(counts @@ (key :> 1)) EXCEPT !["other"] = @ + 1]]

\* stats["event_counts"].setdefault(event_type, 0), then the increment of
\* event_type's count when it is a key, of "other" when not
CountEvent(st, key) ==
  LET counts == st.event_counts
      withKey == IF key \in DOMAIN counts THEN counts ELSE counts @@ (key :> 0)
  IN [st EXCEPT !.event_counts =
        IF key \in DOMAIN withKey
        THEN [withKey EXCEPT ![key] = @ + 1]
        ELSE [withKey EXCEPT !["other"] = @ + 1]]

\* the ordering check with "<=" written for "<"
CheckOrderTies(st, prev, ts) ==
  IF ts.ok /\ prev.ok /\ ts.n <= prev.n
  THEN [st EXCEPT !.anomalies.timestamp_order = @ + 1,
                  !.examples.timestamp_order = Append(@, <<prev.n, ts.n>>)]
  ELSE st

\* the ordering check of one line with timestamp ts
CheckOrder(st, prev, ts) ==
  IF ts.ok /\ prev.ok /\ ts.n < prev.n
  THEN [st EXCEPT !.anomalies.timestamp_order = @ + 1,
                  !.examples.timestamp_order = Append(@, <<prev.n, ts.n>>)]
  ELSE st

\* the velocity check that counts the anomaly and keeps no example
CheckVelocityNoExample(st, ts, data) ==
  LET velocity == SafeNumber(data.velocity)
  IN IF velocity.ok /\ velocity.n > EXTREME_VELOCITY_THRESHOLD
     THEN [st EXCEPT !.anomalies.extreme_velocity = @ + 1]
     ELSE st

\* the velocity check of a mouse_move line
CheckVelocity(st, ts, data) ==
  LET velocity == SafeNumber(data.velocity)
  IN IF velocity.ok /\ velocity.n > EXTREME_VELOCITY_THRESHOLD
     THEN [st EXCEPT !.anomalies.extreme_velocity = @ + 1,
                     !.examples.extreme_velocity = Append(@, <<ts, velocity.n>>)]
     ELSE st

\* the timing checks with "elif" written for the second "if"
CheckTimingsElif(st, data) ==
  LET dwell == SafeNumber(data.dwell_time)
      flight == SafeNumber(data.flight_time)
  IN IF dwell.ok /\ dwell.n < 0
     THEN [st EXCEPT !.anomalies.negative_dwell_or_flight = @ + 1,
                     !.examples.negative_dwell_or_flight =
                        Append(@, <<"dwell_time", dwell.n>>)]
     ELSE IF flight.ok /\ flight.n < 0
     THEN [st EXCEPT !.anomalies.negative_dwell_or_flight = @ + 1,
                     !.examples.negative_dwell_or_flight =
                        Append(@, <<"flight_time", flight.n>>)]
     ELSE st

\* the dwell check, then the flight check, of a key_press or key_release line
CheckTimings(st, data) ==
  LET dwell == SafeNumber(data.dwell_time)
      flight == SafeNumber(data.flight_time)
      afterDwell ==
        IF dwell.ok /\ dwell.n < 0
        THEN [st EXCEPT !.anomalies.negative_dwell_or_flight = @ + 1,
                        !.examples.negative_dwell_or_flight =
                           Append(@, <<"dwell_time", dwell.n>>)]
        ELSE st
  IN IF flight.ok /\ flight.n < 0
     THEN [afterDwell EXCEPT !.anomalies.negative_dwell_or_flight = @ + 1,
                             !.examples.negative_dwell_or_flight =
                                Append(@, <<"flight_time", flight.n>>)]
     ELSE afterDwell

\* the body of "for line in fp" from event.get("timestamp") on, for a line that
\* decoded to an object: data.get raises AttributeError when data is no object
AnalyzeEvent(st, prev, event) ==
  LET timestamp == SafeNumber(event.timestamp)
      ordered == CheckOrder(st, prev, timestamp)
      prevNow == IF timestamp.ok THEN timestamp ELSE prev
      event_type == EventType(event)
      counted == CountEvent(ordered, TypeKey(event_type))
      data == Data(event)
  IN IF ~Hashable(event_type) THEN Outcome(ordered, prevNow, TRUE)
     ELSE IF event_type = Str("mouse_move")
     THEN IF data.tag # "dict" THEN Outcome(counted, prevNow, TRUE)
          ELSE Outcome(CheckVelocity(counted, timestamp, data), prevNow, FALSE)
     ELSE IF event_type \in {Str("key_press"), Str("key_release")}
     THEN IF data.tag # "dict" THEN Outcome(counted, prevNow, TRUE)
          ELSE Outcome(CheckTimings(counted, data), prevNow, FALSE)
     ELSE Outcome(counted, prevNow, FALSE)

\* the loop body that forgets the remembered timestamp on an undecodable line
AnalyzeLineForgets(st, prev, line) ==
  LET read == [st EXCEPT !.total_lines = @ + 1]
      valid == [read EXCEPT !.valid_json = @ + 1]
  IN CASE line.kind = "blank" -> Outcome(read, prev, FALSE)
       [] line.kind = "invalid" ->
            Outcome([read EXCEPT !.invalid_json = @ + 1], NoNumber, FALSE)
       [] line.kind = "scalar" -> Outcome(valid, prev, TRUE)
       [] OTHER -> AnalyzeEvent(valid, prev, line)

\* the loop body without "if not line: continue": json.loads rejects the blank line
AnalyzeLineNoSkip(st, prev, line) ==
  LET read == [st EXCEPT !.total_lines = @ + 1]
      valid == [read EXCEPT !.valid_json = @ + 1]
  IN CASE line.kind \in {"blank", "invalid"} ->
            Outcome([read EXCEPT !.invalid_json = @ + 1], prev, FALSE)
       [] line.kind = "scalar" -> Outcome(valid, prev, TRUE)
       [] OTHER -> AnalyzeEvent(valid, prev, line)

\* the body of "for line in fp" for one line: a blank line is skipped, a line
\* json.loads rejects is counted invalid, and on a line that decodes to anything
\* but an object event.get raises AttributeError
AnalyzeLine(st, prev, line) ==
  LET read == [st EXCEPT !.total_lines = @ + 1]
      valid == [read EXCEPT !.valid_json = @ + 1]
  IN CASE line.kind = "blank" -> Outcome(read, prev, FALSE)
       [] line.kind = "invalid" ->
            Outcome([read EXCEPT !.invalid_json = @ + 1], prev, FALSE)
       [] line.kind = "scalar" -> Outcome(valid, prev, TRUE)
       [] OTHER -> AnalyzeEvent(valid, prev, line)

\* the lines a log file is made of
Blank == [kind |-> "blank"]

Invalid == [kind |-> "invalid"]

Scalar == [kind |-> "scalar"]

Object(timestamp, event_type, data) ==
  [kind |-> "object", timestamp |-> timestamp, event_type |-> event_type,
   data |-> data]

Timestamps == {Missing, Num(1), Num(2), Str("x"), Str("2")}

EventTypes == {Missing, Str("key_release"), Str("mouse_move"), Str("custom"), List}

Datas == {Missing, Null, Dict(Num(60000), Missing, Missing),
          Dict(Missing, Num(-3), Num(-1))}

LineValues ==
  {Blank, Invalid, Scalar}
    \cup {Object(ts, et, d) : ts \in Timestamps, et \in EventTypes, d \in Datas}

\* no analysis is under way
AnalyzerIdle ==
  /\ lines = <<>>
  /\ lineNo = 0
  /\ stats = NewStats
  /\ previous_ts = NoNumber
  /\ apc = "idle"

\* analyze_log(file_path) up to the loop, on a file that opens and holds up to
\* n lines drawn from values
AnalyzerStart(values, n) ==
  /\ lines \in UNION {[1..k -> values] : k \in 0..n}
  /\ lineNo = 0
  /\ stats = NewStats
  /\ previous_ts = NoNumber
  /\ apc = "reading"

AnalyzerInit == AnalyzerStart(LineValues, MaxLines)

\* lines that differ in their timestamp only, with blank and undecodable ones
OrderLineValues ==
  {Blank, Invalid} \cup {Object(ts, Missing, Missing) : ts \in Timestamps}

\* lines of key and mouse events that differ in their timings
TimingTypes ==
  {Str("key_press"), Str("key_release"), Str("mouse_move"), Str("custom")}

TimingDatas ==
  {Dict(Missing, Num(-3), Num(-1)), Dict(Missing, Num(-3), Null),
   Dict(Missing, Str("x"), Num(-1)), Dict(Missing, Num(1), Num(0)),
   Dict(Num(-2), Missing, Missing)}

TimingLineValues ==
  {Blank, Invalid} \cup {Object(Missing, et, d) : et \in TimingTypes, d \in TimingDatas}

\* one iteration of "for line in fp"
AnalyzeStep ==
  /\ apc = "reading"
  /\ lineNo < Len(lines)
  /\ LET out == AnalyzeLine(stats, previous_ts, lines[lineNo + 1])
     IN /\ stats' = out.stats
        /\ previous_ts' = out.previous_ts
        /\ apc' = IF out.raised THEN "raised" ELSE "reading"
  /\ lineNo' = lineNo + 1
  /\ UNCHANGED lines

\* return stats
AnalyzeReturn ==
  /\ apc = "reading"
  /\ lineNo = Len(lines)
  /\ apc' = "returned"
  /\ UNCHANGED <<lines, lineNo, stats, previous_ts>>

collectorVars == <<collectorState, threadState, now, enqLog, callLog, lastOp>>

\* ------------------------------------------------------------------- Spec
Sources == {"listener", "inflight"}

Times == 0..MaxTime

Init == CollectorInit /\ AnalyzerIdle

\* the collector with both devices; no analysis runs meanwhile
Next ==
  \/ Start /\ UNCHANGED analyzerVars
  \/ StopBegin /\ UNCHANGED analyzerVars
  \/ StopJoin /\ UNCHANGED analyzerVars
  \/ \E key \in Keys, t \in Times, src \in Sources :
       Len(callLog) < MaxEvents /\ OnPress(key, t, src) /\ UNCHANGED analyzerVars
  \/ \E key \in Keys, t \in Times, src \in Sources :
       Len(callLog) < MaxEvents /\ OnRelease(key, t, src) /\ UNCHANGED analyzerVars
  \/ \E x \in Xs, y \in Ys, t \in Times, src \in Sources :
       Len(callLog) < MaxEvents /\ OnMove(x, y, t, src) /\ UNCHANGED analyzerVars
  \/ \E t \in Times, src \in Sources :
       Len(callLog) < MaxEvents /\ OnClick(0, 0, TRUE, t, src) /\ UNCHANGED analyzerVars
  \/ \E t \in Times, src \in Sources :
       Len(callLog) < MaxEvents /\ OnScroll(0, 0, 0, 1, t, src) /\ UNCHANGED analyzerVars
  \/ \E w \in DOMAIN writers : WriterOpen(w) /\ UNCHANGED analyzerVars
  \/ \E w \in DOMAIN writers : WriterOpenFail(w) /\ UNCHANGED analyzerVars
  \/ \E w \in DOMAIN writers : WriterGet(w) /\ UNCHANGED analyzerVars
  \/ \E w \in DOMAIN writers : WriterWrite(w) /\ UNCHANGED analyzerVars
  \/ \E w \in DOMAIN writers : WriterWriteFail(w) /\ UNCHANGED analyzerVars

Spec == Init /\ [][Next]_vars

\* the collector while only the keyboard produces input and the writer threads
\* are not scheduled: a writer step changes event_queue, writers and file only,
\* and no handler reads them (maxsize is 0)
NextKeyboard ==
  \/ Start /\ UNCHANGED analyzerVars
  \/ StopBegin /\ UNCHANGED analyzerVars
  \/ StopJoin /\ UNCHANGED analyzerVars
  \/ \E key \in Keys, t \in Times, src \in Sources :
       Len(callLog) < MaxKeyEvents /\ OnPress(key, t, src) /\ UNCHANGED analyzerVars
  \/ \E key \in Keys, t \in Times, src \in Sources :
       Len(callLog) < MaxKeyEvents /\ OnRelease(key, t, src) /\ UNCHANGED analyzerVars

SpecKeyboard == Init /\ [][NextKeyboard]_vars

\* the collector while only the mouse produces input and the writer threads
\* are not scheduled
NextMouse ==
  \/ Start /\ UNCHANGED analyzerVars
  \/ StopBegin /\ UNCHANGED analyzerVars
  \/ StopJoin /\ UNCHANGED analyzerVars
  \/ \E x \in Xs, y \in Ys, t \in Times, src \in Sources :
       Len(callLog) < MaxMouseEvents /\ OnMove(x, y, t, src) /\ UNCHANGED analyzerVars
  \/ \E t \in Times, src \in Sources :
       Len(callLog) < MaxMouseEvents /\ OnClick(0, 0, TRUE, t, src) /\ UNCHANGED analyzerVars
  \/ \E t \in Times, src \in Sources :
       Len(callLog) < MaxMouseEvents /\ OnScroll(0, 0, 0, 1, t, src) /\ UNCHANGED analyzerVars

SpecMouse == Init /\ [][NextMouse]_vars

\* the collector with the keyboard and its writer threads, for progress
NextStop ==
  \/ Start /\ UNCHANGED analyzerVars
  \/ StopBegin /\ UNCHANGED analyzerVars
  \/ StopJoin /\ UNCHANGED analyzerVars
  \/ \E key \in Keys, t \in Times, src \in Sources :
       Len(callLog) < MaxStopEvents /\ OnPress(key, t, src) /\ UNCHANGED analyzerVars
  \/ \E w \in DOMAIN writers : WriterOpen(w) /\ UNCHANGED analyzerVars
  \/ \E w \in DOMAIN writers : WriterOpenFail(w) /\ UNCHANGED analyzerVars
  \/ \E w \in DOMAIN writers : WriterGet(w) /\ UNCHANGED analyzerVars
  \/ \E w \in DOMAIN writers : WriterWrite(w) /\ UNCHANGED analyzerVars
  \/ \E w \in DOMAIN writers : WriterWriteFail(w) /\ UNCHANGED analyzerVars

\* the main thread inside stop() goes on: join(timeout=5) returns after 5 s at
\* the latest
JoinReturns == StopJoin /\ UNCHANGED analyzerVars

\* nothing is assumed of the writer threads: a write may take arbitrarily long
SpecStop == Init /\ [][NextStop]_vars /\ WF_vars(JoinReturns)

\* the same with every callback delivered by a started listener, so that
\* every event is put between a start() and the stop() after it
NextRestart ==
  \/ Start /\ UNCHANGED analyzerVars
  \/ StopBegin /\ UNCHANGED analyzerVars
  \/ StopJoin /\ UNCHANGED analyzerVars
  \/ \E key \in Keys, t \in Times :
       Len(callLog) < MaxStopEvents /\ OnPress(key, t, "listener")
         /\ UNCHANGED analyzerVars
  \/ \E w \in DOMAIN writers : WriterOpen(w) /\ UNCHANGED analyzerVars
  \/ \E w \in DOMAIN writers : WriterOpenFail(w) /\ UNCHANGED analyzerVars
  \/ \E w \in DOMAIN writers : WriterGet(w) /\ UNCHANGED analyzerVars
  \/ \E w \in DOMAIN writers : WriterWrite(w) /\ UNCHANGED analyzerVars
  \/ \E w \in DOMAIN writers : WriterWriteFail(w) /\ UNCHANGED analyzerVars

\* writer thread w goes on whenever it can: it opens the file, takes the next
\* item when there is one, writes the event it holds, unless the I/O fails
WriterProgress(w) ==
  /\ w \in DOMAIN writers
  /\ (WriterOpen(w) \/ WriterGet(w) \/ WriterWrite(w))
  /\ UNCHANGED analyzerVars

\* every thread that can run is scheduled
SpecRestart ==
  /\ Init
  /\ [][NextRestart]_vars
  /\ WF_vars(JoinReturns)
  /\ \A w \in 1..MaxStarts : WF_vars(WriterProgress(w))

\* one pass of analyze_log over a file of up to MaxLines lines
InitAnalyze == CollectorInit /\ AnalyzerInit

NextAnalyze ==
  \/ AnalyzeStep /\ UNCHANGED collectorVars
  \/ AnalyzeReturn /\ UNCHANGED collectorVars

SpecAnalyze == InitAnalyze /\ [][NextAnalyze]_vars

\* one pass over a file of up to MaxOrderLines lines that differ in timestamp
InitOrder == CollectorInit /\ AnalyzerStart(OrderLineValues, MaxOrderLines)

SpecOrder == InitOrder /\ [][NextAnalyze]_vars

\* one pass over a file of up to MaxLines lines of key and mouse events
InitTimings == CollectorInit /\ AnalyzerStart(TimingLineValues, MaxLines)

SpecTimings == InitTimings /\ [][NextAnalyze]_vars

\* ================================================================ claims
Last(q) == q[Len(q)]

Front(q) == SubSeq(q, 1, Len(q) - 1)

IsPrefix(p, q) == Len(p) <= Len(q) /\ SubSeq(q, 1, Len(p)) = p

\* the step delivers a callback of kind op
CallbackStep(op) ==
  /\ Len(callLog') = Len(callLog) + 1
  /\ Last(callLog').op = op

\* the step puts one more item into the queue
PutStep == Len(enqLog') = Len(enqLog) + 1

\* writers that have the session file open
OpenWriters == {w \in DOMAIN writers : writers[w].st \in {"waiting", "holding"}}

NoIOFailure == \A w \in DOMAIN writers : writers[w].st # "failed"

\* the item put as the i-th is a line of the file
Written(i) == \E j \in DOMAIN file : file[j].seq = i

SentinelsPut == Cardinality({i \in DOMAIN enqLog : enqLog[i] = Sentinel})

\* C1: shutdown loses nothing. Unless some write or open failed, when a writer
\* has left its loop on a sentinel, every event put into the queue before that
\* sentinel is a line of the session file.
C1_ShutdownLosesNothing ==
  NoIOFailure =>
    \A w \in DOMAIN writers :
      writers[w].st = "exited" =>
        \A i \in 1..(writers[w].item.seq - 1) :
          enqLog[i] # Sentinel => Written(i)

\* C2: exactly one writer per session. At no moment do two writer threads have
\* the session file open, whatever start() and stop() calls were made.
C2_OneWriterPerSession == Cardinality(OpenWriters) <= 1

\* C3: start() is idempotent. A start() call made while the collector is
\* running changes nothing: no writer is created, no listener is registered,
\* no field of the collector changes.
C3_StartIdempotent ==
  [][(running /\ lastOp' = "start") =>
       UNCHANGED <<collectorState, threadState, now, enqLog, callLog>>]_vars

\* a start() call was made on a running collector whose writer was already at work
C3_SecondStartWhileRunning ==
  /\ running
  /\ lastOp = "start"
  /\ writers[writer_thread].st \in {"waiting", "holding"}
  /\ Len(callLog) > 0

\* every run that has been stopped put exactly one sentinel
C4_OneSentinelPerCycle ==
  SentinelsPut = CurrentRun - (IF running THEN 1 ELSE 0)

\* C4: stop() is idempotent. A stop() call made while the collector is not
\* running changes nothing, so it puts no sentinel, and the sentinels put are
\* as many as the start()/stop() cycles made.
C4_StopIdempotent ==
  /\ []C4_OneSentinelPerCycle
  /\ [][(~running /\ lastOp' = "stop") =>
          UNCHANGED <<collectorState, threadState, now, enqLog, callLog>>]_vars

\* a stop() call was made on a collector that a stop() had already stopped
C4_SecondStopWhileStopped ==
  /\ ~running
  /\ lastOp = "stop"
  /\ pc = "idle"
  /\ CurrentRun = 1
  /\ SentinelsPut = 1

\* the step delivers a callback whose handler always calls _enqueue_event
EnqueueAttempt ==
  \E op \in {"press", "release", "click", "scroll"} : CallbackStep(op)

\* C5: the hand-off queue is bounded and enqueue is best-effort. The queue has
\* a capacity; an event that arrives while the queue is at capacity is dropped
\* and leaves the queue as it was, any other is appended.
C5_QueueBounded ==
  [][EnqueueAttempt =>
       /\ maxsize > 0
       /\ IF Len(event_queue) >= maxsize
          THEN event_queue' = event_queue
          ELSE Len(event_queue') = Len(event_queue) + 1]_vars

\* the step is an I/O failure of some writer
WriterFails ==
  \E w \in DOMAIN writers : writers[w].st # "failed" /\ writers'[w].st = "failed"

\* the collector is running and the writer of its run has failed
RunWriterFailed ==
  running /\ writer_thread # 0 /\ writers[writer_thread].st = "failed"

\* the step takes an event, not the sentinel, from the head of the queue
TakesEvent ==
  /\ event_queue # <<>>
  /\ Head(event_queue).ev # Sentinel
  /\ event_queue' = Tail(event_queue)

NoCall == [op |-> "none", key |-> "", x |-> 0, y |-> 0, t |-> 0, run |-> 0]

\* "dt < 0.1 s and distance < 5 px" between call c and the earlier call prev
TooCloseTo(prev, c) ==
  /\ c.t - prev.t < 2
  /\ (c.x - prev.x) * (c.x - prev.x) + (c.y - prev.y) * (c.y - prev.y) < 25

\* the last move of the call history that was not suppressed, NoCall if none:
\* a move is suppressed when it is too close to the accepted move before it
RECURSIVE LastAcceptedMove(_)
LastAcceptedMove(log) ==
  IF log = <<>> THEN NoCall
  ELSE LET c == Last(log)
           prev == LastAcceptedMove(Front(log))
       IN IF c.op # "move" THEN prev
          ELSE IF prev # NoCall /\ TooCloseTo(prev, c) THEN prev
          ELSE c

\* C7: a mouse move is suppressed if and only if an accepted move came before
\* it and it is less than 0.1 s and less than 5 px from the last accepted one.
\* A suppressed move puts nothing into the queue and leaves last_mouse_pos and
\* last_mouse_move_time as they were; any other move is put into the queue and
\* overwrites both.
C7_MoveThrottle ==
  [][CallbackStep("move") =>
       LET c == Last(callLog')
           prev == LastAcceptedMove(callLog)
       IN IF prev # NoCall /\ TooCloseTo(prev, c)
          THEN /\ event_queue' = event_queue
               /\ enqLog' = enqLog
               /\ last_mouse_pos' = last_mouse_pos
               /\ last_mouse_move_time' = last_mouse_move_time
          ELSE /\ PutStep
               /\ Last(event_queue').ev = Last(enqLog')
               /\ Last(enqLog').event_type = "mouse_move"
               /\ Last(enqLog').timestamp = c.t
               /\ Last(enqLog').data.x = c.x
               /\ Last(enqLog').data.y = c.y
               /\ last_mouse_pos' = <<c.x, c.y>>
               /\ last_mouse_move_time' = c.t]_vars

MoveEvents == {i \in DOMAIN enqLog : enqLog[i].event_type = "mouse_move"}

\* three moves: the second was suppressed, and the third, too close to the
\* second but not to the first, was accepted
C7_AcceptedAgainstLastAccepted ==
  /\ Len(callLog) = 3
  /\ \A i \in 1..3 : callLog[i].op = "move"
  /\ TooCloseTo(callLog[1], callLog[2])
  /\ TooCloseTo(callLog[2], callLog[3])
  /\ ~TooCloseTo(callLog[1], callLog[3])
  /\ Cardinality(MoveEvents) = 2
  /\ last_mouse_pos = <<callLog[3].x, callLog[3].y>>

\* the time of the press of key that no later release of key has matched, None
\* if there is none: the last call for key in the history decides
RECURSIVE UnmatchedPress(_, _)
UnmatchedPress(log, key) ==
  IF log = <<>> THEN None
  ELSE LET c == Last(log)
       IN IF c.key = key /\ c.op = "press" THEN c.t
          ELSE IF c.key = key /\ c.op = "release" THEN None
          ELSE UnmatchedPress(Front(log), key)

\* C8: a key_release event carries a dwell_time if and only if a press of the
\* same key was recorded and no earlier release has matched it; the dwell_time
\* is then the release time minus the time of the most recent such press, and
\* the release removes the key from key_press_times.
C8_DwellTime ==
  [][CallbackStep("release") =>
       LET c == Last(callLog')
           pressed == UnmatchedPress(callLog, c.key)
           ev == Last(enqLog')
       IN /\ PutStep
          /\ ev.event_type = "key_release"
          /\ ev.data.key = c.key
          /\ ev.data.release_time = c.t
          /\ (ev.data.dwell_time # None) <=> (pressed # None)
          /\ pressed # None => ev.data.dwell_time = c.t - pressed
          /\ key_press_times'[c.key] = None]_vars

\* a key was pressed twice and then released, each at a later tick, and the
\* release carries the time since the second press
C8_DwellSinceLastPress ==
  /\ Len(callLog) = 3
  /\ callLog[1].op = "press" /\ callLog[2].op = "press" /\ callLog[3].op = "release"
  /\ callLog[1].key = callLog[3].key /\ callLog[2].key = callLog[3].key
  /\ callLog[1].t < callLog[2].t /\ callLog[2].t < callLog[3].t
  /\ \E i \in DOMAIN enqLog :
       /\ enqLog[i].event_type = "key_release"
       /\ enqLog[i].data.dwell_time = callLog[3].t - callLog[2].t

\* C9: a key_press event carries a flight_time if and only if a key release,
\* of any key, was delivered earlier in the same run of the collector.
C9_FlightTimePerSession ==
  [][CallbackStep("press") =>
       LET c == Last(callLog')
       IN /\ PutStep
          /\ (Last(enqLog').data.flight_time # None) <=>
               (\E j \in DOMAIN callLog :
                  callLog[j].op = "release" /\ callLog[j].run = c.run)]_vars

\* C10: analyze_log never raises because of what a line holds: the pass reads
\* every line and returns.
C10_NeverRaises == apc # "raised"

\* the step is one iteration of the loop of analyze_log
ReadsLine == apc = "reading" /\ lineNo' = lineNo + 1

\* the line that iteration reads
Line == lines[lineNo + 1]

KnownLabels ==
  {"key_press", "key_release", "mouse_move", "mouse_click", "mouse_scroll"}

\* the count of label, 0 while event_counts has no such key
CountOf(st, label) ==
  IF label \in DOMAIN st.event_counts THEN st.event_counts[label] ELSE 0

\* the line decodes to an object whose event_type is missing or a string
ClassifiedLine(line) ==
  line.kind = "object" /\ line.event_type.tag \in {"missing", "str"}

\* the label the line is to be counted under
LabelOf(line) ==
  IF line.event_type.tag = "str" /\ line.event_type.s \in KnownLabels
  THEN line.event_type.s
  ELSE "other"

\* C11: a valid line whose event_type is missing or a string that is none of
\* the known labels adds one to the count of "other"; a line whose event_type
\* is a known label adds one to that label's count.
C11_UnknownCountsAsOther ==
  [][(ReadsLine /\ ClassifiedLine(Line)) =>
       CountOf(stats', LabelOf(Line)) = CountOf(stats, LabelOf(Line)) + 1]_vars

\* how many of the lines of the file are of one of kinds
LinesOfKind(kinds) == Cardinality({i \in DOMAIN lines : lines[i].kind \in kinds})

\* C12: when analyze_log returns, every line was counted in total_lines, every
\* line that is not blank in exactly one of valid_json and invalid_json, and
\* valid_json + invalid_json is total_lines less the blank lines.
C12_LineAccounting ==
  apc = "returned" =>
    /\ stats.total_lines = Len(lines)
    /\ stats.invalid_json = LinesOfKind({"invalid"})
    /\ stats.valid_json = LinesOfKind({"object", "scalar"})
    /\ stats.valid_json + stats.invalid_json =
         stats.total_lines - LinesOfKind({"blank"})

\* a pass returned from a file with a blank, an undecodable and a valid line
C12_BlankInvalidAndValid ==
  /\ apc = "returned"
  /\ LinesOfKind({"blank"}) = 1
  /\ LinesOfKind({"invalid"}) = 1
  /\ LinesOfKind({"object"}) = 1
  /\ stats.total_lines = 3

\* the timestamp a line supplies: none for a blank or undecodable line, and
\* none when the value is missing or does not read as a number
TimestampOf(line) ==
  IF line.kind = "object" THEN SafeNumber(line.timestamp) ELSE NoNumber

\* the timestamp of the most recent of the first n lines that supplies one
RECURSIVE LastTimestamp(_)
LastTimestamp(n) ==
  IF n = 0 THEN NoNumber
  ELSE IF TimestampOf(lines[n]).ok THEN TimestampOf(lines[n])
  ELSE LastTimestamp(n - 1)

\* C13: reading a line records a timestamp_order anomaly (previous, current)
\* exactly when the line supplies a timestamp, an earlier line supplied one, and
\* current is strictly less than the most recent of those; a line that supplies
\* none records nothing and leaves the remembered timestamp as it was.
C13_OrderingCheck ==
  [][ReadsLine =>
       LET cur == TimestampOf(Line)
           prev == LastTimestamp(lineNo)
           anomaly == cur.ok /\ prev.ok /\ cur.n < prev.n
       IN /\ stats'.examples.timestamp_order =
               IF anomaly
               THEN Append(stats.examples.timestamp_order, <<prev.n, cur.n>>)
               ELSE stats.examples.timestamp_order
          /\ stats'.anomalies.timestamp_order =
               stats.anomalies.timestamp_order + (IF anomaly THEN 1 ELSE 0)
          /\ previous_ts' = (IF cur.ok THEN cur ELSE previous_ts)
          /\ previous_ts' = LastTimestamp(lineNo + 1)]_vars

\* timestamps 2, none, 1: the third line is out of order against the first,
\* and the line between them did not reset the remembered timestamp
C13_AnomalyAcrossGap ==
  /\ lineNo = 3
  /\ TimestampOf(lines[1]) = Number(2)
  /\ lines[2].kind = "object" /\ ~TimestampOf(lines[2]).ok
  /\ TimestampOf(lines[3]) = Number(1)
  /\ stats.examples.timestamp_order = << <<2, 1>> >>
  /\ stats.anomalies.timestamp_order = 1

\* the line is a key_press or a key_release event
KeyLine(line) ==
  /\ line.kind = "object"
  /\ line.event_type \in {Str("key_press"), Str("key_release")}

\* the example a timing field of the line calls for: one, tagged with the
\* field's name, when the value is numeric and negative
NegativeTiming(line, field) ==
  IF line.data.tag = "dict"
       /\ SafeNumber(line.data[field]).ok /\ SafeNumber(line.data[field]).n < 0
  THEN << <<field, SafeNumber(line.data[field]).n>> >>
  ELSE <<>>

\* the examples a line calls for: dwell before flight, for key lines only
NegativeTimings(line) ==
  IF KeyLine(line)
  THEN NegativeTiming(line, "dwell_time") \o NegativeTiming(line, "flight_time")
  ELSE <<>>

\* C14: reading a line appends to the negative_dwell_or_flight examples, for a
\* key_press or key_release line, one example tagged "dwell_time" if dwell_time
\* is numeric and negative and then one tagged "flight_time" if flight_time is,
\* and nothing for any other line; the counter grows by as many.
C14_NegativeTimings ==
  [][ReadsLine =>
       /\ stats'.examples.negative_dwell_or_flight =
            stats.examples.negative_dwell_or_flight \o NegativeTimings(Line)
       /\ stats'.anomalies.negative_dwell_or_flight =
            stats.anomalies.negative_dwell_or_flight + Len(NegativeTimings(Line))]_vars

\* a mouse_move line with negative timings added nothing, a key_press line
\* with both negative added the dwell example and then the flight example
C14_BothOnOneLine ==
  /\ lineNo = 2
  /\ lines[1] = Object(Missing, Str("mouse_move"), Dict(Missing, Num(-3), Num(-1)))
  /\ lines[2] = Object(Missing, Str("key_press"), Dict(Missing, Num(-3), Num(-1)))
  /\ stats.examples.negative_dwell_or_flight =
       << <<"dwell_time", -3>>, <<"flight_time", -1>> >>
  /\ stats.anomalies.negative_dwell_or_flight = 2

\* C15: a line that fails JSON decoding adds one to total_lines and one to
\* invalid_json and changes nothing else: no event-type count, no anomaly
\* counter, no example list, not the remembered timestamp; and the pass goes
\* on to the lines after it.
C15_InvalidLineFrame ==
  [][(ReadsLine /\ Line.kind = "invalid") =>
       /\ stats' = [stats EXCEPT !.total_lines = @ + 1, !.invalid_json = @ + 1]
       /\ previous_ts' = previous_ts
       /\ apc' = "reading"
       /\ lineNo' = lineNo + 1]_vars

\* timestamps 2, an undecodable line, 1: the line after the undecodable one
\* was read and checked against the timestamp remembered from before it
C15_PassGoesOnAfterInvalid ==
  /\ apc = "returned"
  /\ Len(lines) = 3
  /\ TimestampOf(lines[1]) = Number(2)
  /\ lines[2].kind = "invalid"
  /\ TimestampOf(lines[3]) = Number(1)
  /\ stats.invalid_json = 1
  /\ stats.valid_json = 2
  /\ stats.examples.timestamp_order = << <<2, 1>> >>

AnomalyKinds == {"timestamp_order", "extreme_velocity", "negative_dwell_or_flight"}

\* each anomaly counter is the length of its example list
CountersMatchExamples ==
  \A k \in AnomalyKinds : stats.anomalies[k] = Len(stats.examples[k])

\* C20: at every point of a pass each of the three anomaly counters equals the
\* length of its example list, and a list only grows at its end, so it holds
\* the occurrences in the order the lines were read.
C20_ExamplesMatchCounters ==
  /\ []CountersMatchExamples
  /\ [][\A k \in AnomalyKinds : IsPrefix(stats.examples[k], stats'.examples[k])]_vars

\* a pass that found an anomaly of each of the three kinds
C20_EachKindRecorded ==
  /\ apc = "returned"
  /\ stats.anomalies.timestamp_order = 1
  /\ stats.anomalies.extreme_velocity = 1
  /\ stats.anomalies.negative_dwell_or_flight = 2
  /\ Len(stats.examples.timestamp_order) = 1
  /\ Len(stats.examples.extreme_velocity) = 1
  /\ Len(stats.examples.negative_dwell_or_flight) = 2

\* the item is a real event, not the sentinel
IsEvent(item) == item.ev # Sentinel

\* the real events taken from the queue so far, in the order taken: the queue
\* is first-in first-out, so they are the events among the first puts that
\* are no longer queued
TakenEvents ==
  LET n == Len(enqLog) - Len(event_queue)
  IN SelectSeq([i \in 1..n |-> [seq |-> i, ev |-> enqLog[i]]], IsEvent)

\* C16: the session file is append-only and order-preserving. At every moment
\* its lines are a prefix of the real events taken from the queue, in the order
\* taken, each once and as it was put; and a step only appends to the file.
C16_FileOrderPreserving ==
  /\ [](IsPrefix(file, TakenEvents))
  /\ [][IsPrefix(file, file')]_vars

\* C17: stop() always terminates. A stop() called on a running collector
\* returns, whatever the writer is doing, and when it returns the collector is
\* not running, both listeners are unregistered and no writer handle is held.
C17_StopTerminates ==
  /\ (pc = "joining") ~> (pc = "idle")
  /\ [][(pc = "joining" /\ pc' = "idle") =>
          (~running' /\ ~keyboard_listener' /\ ~mouse_listener'
             /\ writer_thread' = 0)]_vars

\* stop() has returned while the writer is still busy with an event
C17_ReturnedWhileWriterBusy ==
  /\ pc = "idle"
  /\ ~running
  /\ CurrentRun = 1
  /\ writer_thread = 0
  /\ writers[1].st = "holding"
  /\ SentinelsPut = 1

\* the step delivers a keyboard callback
KeyCallbackStep == CallbackStep("press") \/ CallbackStep("release")

\* the step delivers a move or a click
PointerCallbackStep == CallbackStep("move") \/ CallbackStep("click")

\* C18: the key-timing state and the mouse state are changed by the device
\* callback handlers only, each changing the state of its own kind: a key
\* handler leaves the mouse state alone, a move or click handler the key
\* state, and a scroll handler, start(), stop() and the writer loop leave
\* both as they were.
C18_HandlerOwnedState ==
  [][/\ KeyCallbackStep => UNCHANGED mouseState
     /\ PointerCallbackStep => UNCHANGED keyState
     /\ ~(KeyCallbackStep \/ PointerCallbackStep) =>
          UNCHANGED <<keyState, mouseState>>]_vars

\* a release and a click were delivered in the first run, the collector was
\* stopped and started again, and the state of both kinds is still in place
C18_StateSurvivesRestart ==
  /\ running
  /\ CurrentRun = 2
  /\ lastOp = "start"
  /\ Len(callLog) = 2
  /\ \A i \in 1..2 : callLog[i].run = 1
  /\ last_key_release_time # None
  /\ last_click_time # None

\* the run during which the i-th item was put: each stop() puts one sentinel
RunOfPut(i) == 1 + Cardinality({j \in 1..(i - 1) : enqLog[j] = Sentinel})

\* the i-th item put is a real event
EventPut(i) == i \in DOMAIN enqLog /\ enqLog[i] # Sentinel

\* the writer of the run during which the i-th item was put, or the writer of
\* a later run, met an I/O failure
OwnWriterFailed(i) ==
  /\ EventPut(i)
  /\ \E w \in DOMAIN writers : w >= RunOfPut(i) /\ writers[w].st = "failed"

\* C19: restart liveness. Every event put during a run of the collector is
\* eventually a line of the session file, unless the writer of that run meets
\* an I/O failure (here: that writer or any writer started after it), whatever
\* became of the writers of earlier runs.
C19_RestartLiveness ==
  \A i \in 1..(MaxStopEvents + MaxStarts) :
    EventPut(i) ~> (Written(i) \/ OwnWriterFailed(i))

\* the sum of the counts of the buckets in keys
RECURSIVE SumCounts(_, _)
SumCounts(counts, keys) ==
  IF keys = {} THEN 0
  ELSE LET k == CHOOSE x \in keys : TRUE
       IN counts[k] + SumCounts(counts, keys \ {k})

\* the sum of all event-type counts, buckets added during the pass included
TotalCounted(st) == SumCounts(st.event_counts, DOMAIN st.event_counts)

\* the buckets whose count the step changes, new buckets included
BucketsChanged ==
  {k \in DOMAIN stats'.event_counts : CountOf(stats', k) # CountOf(stats, k)}

\* C21: after every fully processed line the sum of all event-type counts, the
\* six initial buckets and any bucket added during the pass, equals valid_json:
\* a valid line adds one to exactly one bucket, a blank or undecodable line
\* adds to none.
C21_CountsSumToValid ==
  /\ [](apc \in {"reading", "returned"} => TotalCounted(stats) = stats.valid_json)
  /\ [][(ReadsLine /\ apc' = "reading") =>
          IF Line.kind = "object"
          THEN /\ Cardinality(BucketsChanged) = 1
               /\ TotalCounted(stats') = TotalCounted(stats) + 1
          ELSE stats'.event_counts = stats.event_counts]_vars

\* a pass returned from an undecodable line and a line of a novel type, which
\* got a bucket of its own
C21_NovelBucketCounted ==
  /\ apc = "returned"
  /\ Len(lines) = 2
  /\ LinesOfKind({"invalid"}) = 1
  /\ stats.valid_json = 1
  /\ "custom" \in DOMAIN stats.event_counts
  /\ stats.event_counts["custom"] = 1
  /\ TotalCounted(stats) = 1

====
